---- MODULE Spec2Model ----
(***************************************************************************)
(* ha-services, MQTT components for Home Assistant: BinarySensor, Switch,  *)
(* Text and Light (RGBW).  One behaviour follows one component object from *)
(* its construction through calls of its methods and incoming command      *)
(* messages.  Strings are sequences of one-character strings, so that      *)
(* len(), split(), strip(), int() and str() are computed.                  *)
(***************************************************************************)
EXTENDS Integers, Sequences, FiniteSets, TLC

(***************************************************************************)
(* Bounds of the model.                                                    *)
(***************************************************************************)
\* the monotonic clock runs from 0 to MaxTime
MaxTime == 3
\* throttle_sec is drawn from 0..MaxThrottle
MaxThrottle == 2
\* time that may pass between two of the calls Light.publish makes
MaxDelay == 1
\* number of publish_config calls (Light.publish included) in one behaviour
MaxConfigCalls == 2

(***************************************************************************)
(* Program constants.                                                      *)
(***************************************************************************)
MAX_BRIGHTNESS == 255
RGBW_LEN == 4
CHANNEL_MAX == 255
TEXT_MIN_LENGTH_DEFAULT == 0
TEXT_MAX_LENGTH_DEFAULT == 255

(***************************************************************************)
(* Values.  A state payload is tagged with its Python type; v is its text. *)
(***************************************************************************)
Str(s) == [t |-> "str", v |-> s]
IntVal(s) == [t |-> "int", v |-> s]
NO_STATE == [t |-> "NO_STATE", v |-> <<>>]

ON == <<"O", "N">>
OFF == <<"O", "F", "F">>
NO_TEXT_PROVIDED ==
    <<"N", "O", " ", "T", "E", "X", "T", " ", "P", "R", "O", "V", "I", "D", "E", "D">>

\* Switch.state2bool / BinarySensor.state2bool / Light.state2bool: the keys
state2bool_keys == {ON, OFF}
state2bool(s) == s = ON

(***************************************************************************)
(* str.strip(), str.split(','), int(str) and str(int) on character         *)
(* sequences.                                                              *)
(***************************************************************************)
Digits == <<"0", "1", "2", "3", "4", "5", "6", "7", "8", "9">>
IsDigit(c) == \E i \in 1..10 : Digits[i] = c
DigitVal(c) == (CHOOSE i \in 1..10 : Digits[i] = c) - 1

RECURSIVE LStrip(_)
LStrip(s) == IF s # <<>> /\ Head(s) = " " THEN LStrip(Tail(s)) ELSE s

RECURSIVE RStrip(_)
RStrip(s) ==
    IF s # <<>> /\ s[Len(s)] = " " THEN RStrip(SubSeq(s, 1, Len(s) - 1)) ELSE s

Strip(s) == RStrip(LStrip(s))

\* payload.split(','): the pieces between the commas, at least one piece
RECURSIVE SplitFrom(_, _, _)
SplitFrom(s, i, cur) ==
    IF i > Len(s) THEN <<cur>>
    ELSE IF s[i] = "," THEN <<cur>> \o SplitFrom(s, i + 1, <<>>)
    ELSE SplitFrom(s, i + 1, Append(cur, s[i]))

Split(s) == SplitFrom(s, 1, <<>>)

RECURSIVE DigitsValue(_, _)
DigitsValue(s, acc) ==
    IF s = <<>> THEN acc ELSE DigitsValue(Tail(s), acc * 10 + DigitVal(Head(s)))

\* int(s): surrounding blanks are ignored, one optional sign, then at least
\* one digit; anything else raises ValueError
ParseInt(s) ==
    LET b == Strip(s)
        signed == b # <<>> /\ Head(b) \in {"-", "+"}
        body == IF signed THEN Tail(b) ELSE b
    IN  IF body = <<>> \/ \E i \in 1..Len(body) : ~IsDigit(body[i])
        THEN [ok |-> FALSE, val |-> 0]
        ELSE [ok |-> TRUE,
              val |-> IF signed /\ Head(b) = "-"
                      THEN 0 - DigitsValue(body, 0)
                      ELSE DigitsValue(body, 0)]

RECURSIVE NatToStr(_)
NatToStr(n) ==
    IF n < 10 THEN <<Digits[n + 1]>>
    ELSE Append(NatToStr(n \div 10), Digits[(n % 10) + 1])

\* str(n)
IntToStr(n) == IF n < 0 THEN <<"-">> \o NatToStr(0 - n) ELSE NatToStr(n)

\* ','.join(map(str, xs))
RECURSIVE JoinInts(_)
JoinInts(xs) ==
    IF xs = <<>> THEN <<>>
    ELSE IF Len(xs) = 1 THEN IntToStr(xs[1])
    ELSE IntToStr(xs[1]) \o <<",">> \o JoinInts(Tail(xs))

(***************************************************************************)
(* The component object, the transport (MQTT client) and the clock.        *)
(***************************************************************************)
VARIABLES
    kind,                 \* "binary_sensor", "switch", "text" or "light"
    ctor,                 \* how __init__ ended: "ok" or the error raised
    callback,             \* the command callback(s): "default" or "noop"
    initial_state,        \* the initial_state argument of __init__
    state,                \* BaseComponent.state
    state_switch,         \* Light.state_switch
    state_brightness,     \* Light.state_brightness
    state_rgbw,           \* Light.state_rgbw
    min_brightness,       \* Light.min_brightness
    max_brightness,       \* Light.max_brightness
    min_length,           \* Text.min_length
    max_length,           \* Text.max_length
    throttle_sec,         \* BaseComponent.throttle_sec
    next_publish,         \* BaseComponent._next_publish
    callbacks_registered, \* BaseComponent._callbacks_registered
    clock,                \* time.monotonic(), constant during one call
    n_config,             \* publish_config calls made so far
    n_callback_add,       \* client.message_callback_add calls so far
    n_subscribe,          \* client.subscribe calls so far
    sent,                 \* per state topic, the last payload published
    pub_at,               \* per state topic, the time of its last publish, or -1
    host,                 \* platform.system(), psutil and the probes it reports
    sensors,              \* TemperaturesSensors.sensors: probe name -> Sensor
    transport_calls,      \* client calls made by TemperaturesSensors.publish
    last                  \* the last call: operation and outcome

vars ==
    <<kind, ctor, callback, initial_state, state, state_switch, state_brightness, state_rgbw,
      min_brightness, max_brightness, min_length, max_length, throttle_sec,
      next_publish, callbacks_registered, clock, n_config, n_callback_add,
      n_subscribe, sent, pub_at, host, sensors, transport_calls, last>>

config_vars ==
    <<kind, ctor, callback, initial_state, min_brightness, max_brightness,
      min_length, max_length, throttle_sec>>

state_vars == <<state, state_switch, state_brightness, state_rgbw>>

client_vars == <<n_config, n_callback_add, n_subscribe, callbacks_registered>>

collector_vars == <<host, sensors, transport_calls>>

StateTopics == {"state", "state/switch", "state/brightness", "state/rgbw"}

Nothing == [has |-> FALSE, payload |-> <<>>]
Payload(p) == [has |-> TRUE, payload |-> p]

NoReturn == [topic |-> "", payload |-> NO_STATE]

\* the last call: its name, the error it raised ("ok" when none), the number
\* of client.publish calls it made for state topics, the number of times it
\* invoked the command callback and with which old_state and new_state, and
\* what it returned
NoLast ==
    [op |-> "init", err |-> "ok", pubs |-> 0, cb |-> 0, cb_old |-> NO_STATE,
     cb_new |-> NO_STATE, ret |-> NoReturn, flag |-> "None"]

(***************************************************************************)
(* BaseComponent (components/__init__.py).                                 *)
(***************************************************************************)
\* BaseComponent.validate_state: the unset sentinel is rejected
Base_validate_state(st) == IF st = NO_STATE THEN "InvalidStateValue" ELSE "ok"

\* BaseComponent.set_state: validate, then assign; err is what
\* self.validate_state answered
Base_set_state(candidate, st, err) == IF err = "ok" THEN candidate ELSE st

\* BaseComponent.publish_state: st is the state, np the deadline
\* _next_publish, now the clock, T the throttle interval
Base_publish_state(st, np, now, T) ==
    IF st = NO_STATE THEN [pub |-> FALSE, np |-> np]
    ELSE IF np > now THEN [pub |-> FALSE, np |-> np]
    ELSE [pub |-> TRUE, np |-> now + T]

\* BaseComponent._register_callbacks: the hook registers nothing by default
Base_register_callbacks == [adds |-> 0, subs |-> 0]

\* BaseComponent.publish_config: the config is published and, guarded by
\* _callbacks_registered, the hook runs once
Base_publish_config(registered, hook) ==
    [registered |-> TRUE,
     adds |-> IF registered THEN 0 ELSE hook.adds,
     subs |-> IF registered THEN 0 ELSE hook.subs]

\* a publish_state call that was not made
NoPublish(np) == [pub |-> FALSE, np |-> np]

(***************************************************************************)
(* components/binary_sensor.py                                             *)
(***************************************************************************)
BinarySensor_validate_state(st) ==
    IF Base_validate_state(st) # "ok" THEN Base_validate_state(st)
    ELSE IF st.t # "str" \/ st.v \notin state2bool_keys
    THEN "InvalidStateValue"
    ELSE "ok"

\* is_on as the truth value of the state string
BinarySensor_is_on_truthy(st) ==
    IF st = NO_STATE \/ st.t # "str" THEN "None"
    ELSE IF Len(st.v) > 0 THEN "True" ELSE "False"

BinarySensor_is_on(st) ==
    IF st = NO_STATE \/ st.t # "str" THEN "None"
    ELSE IF st.v \notin state2bool_keys THEN "KeyError"
    ELSE IF state2bool(st.v) THEN "True" ELSE "False"

BinarySensor_get_state(st) ==
    IF ~(st # NO_STATE /\ st.t = "str")
    THEN [err |-> "AssertionError", ret |-> NoReturn]
    ELSE [err |-> "ok", ret |-> [topic |-> "state", payload |-> st]]

(***************************************************************************)
(* components/switch.py                                                    *)
(***************************************************************************)
Switch_validate_state(st) ==
    IF Base_validate_state(st) # "ok" THEN Base_validate_state(st)
    ELSE IF st = NO_STATE THEN "InvalidStateValue"
    ELSE IF ~(st.t = "str" /\ st.v \in state2bool_keys)
    THEN "InvalidStateValue"
    ELSE "ok"

\* get_state without the assertion
Switch_get_state_unchecked(st) ==
    [err |-> "ok", ret |-> [topic |-> "state", payload |-> st]]

Switch_get_state(st) ==
    IF ~(st # NO_STATE)
    THEN [err |-> "AssertionError", ret |-> NoReturn]
    ELSE [err |-> "ok", ret |-> [topic |-> "state", payload |-> st]]

\* Switch._register_callbacks: one message_callback_add, one subscribe
Switch_register_callbacks == [adds |-> 1, subs |-> 1]

\* default_switch_callback: component.set_state, component.publish_state
default_switch_callback(new, st, np, now, T) ==
    IF Switch_validate_state(new) # "ok"
    THEN [err |-> Switch_validate_state(new), state |-> st, p |-> NoPublish(np)]
    ELSE [err |-> "ok", state |-> new, p |-> Base_publish_state(new, np, now, T)]

\* a handler that applies the command itself before it invokes the callback
Switch_command_callback_applies(payload, st, cbk, np, now, T) ==
    IF ~(payload \in state2bool_keys)
    THEN [err |-> "AssertionError", cb |-> 0, cb_old |-> NO_STATE,
          cb_new |-> NO_STATE, state |-> st, p |-> NoPublish(np)]
    ELSE IF cbk = "default"
    THEN [err |-> default_switch_callback(Str(payload), st, np, now, T).err,
          cb |-> 1, cb_old |-> st, cb_new |-> Str(payload),
          state |-> default_switch_callback(Str(payload), st, np, now, T).state,
          p |-> default_switch_callback(Str(payload), st, np, now, T).p]
    ELSE [err |-> "ok", cb |-> 1, cb_old |-> st, cb_new |-> Str(payload),
          state |-> Str(payload), p |-> NoPublish(np)]

\* Switch._command_callback; cbk is self.callback
Switch_command_callback(payload, st, cbk, np, now, T) ==
    IF ~(payload \in state2bool_keys)
    THEN [err |-> "AssertionError", cb |-> 0, cb_old |-> NO_STATE,
          cb_new |-> NO_STATE, state |-> st, p |-> NoPublish(np)]
    ELSE IF cbk = "default"
    THEN [err |-> default_switch_callback(Str(payload), st, np, now, T).err,
          cb |-> 1, cb_old |-> st, cb_new |-> Str(payload),
          state |-> default_switch_callback(Str(payload), st, np, now, T).state,
          p |-> default_switch_callback(Str(payload), st, np, now, T).p]
    ELSE [err |-> "ok", cb |-> 1, cb_old |-> st, cb_new |-> Str(payload),
          state |-> st, p |-> NoPublish(np)]

(***************************************************************************)
(* components/text.py                                                      *)
(***************************************************************************)
Text_validate_state_no_max(st, lo, hi) ==
    IF Base_validate_state(st) # "ok" THEN Base_validate_state(st)
    ELSE IF st.t # "str" THEN "InvalidStateValue"
    ELSE IF Len(st.v) < lo THEN "InvalidStateValue"
    ELSE "ok"

Text_validate_state(st, lo, hi) ==
    IF Base_validate_state(st) # "ok" THEN Base_validate_state(st)
    ELSE IF st.t # "str" THEN "InvalidStateValue"
    ELSE IF Len(st.v) < lo THEN "InvalidStateValue"
    ELSE IF Len(st.v) > hi THEN "InvalidStateValue"
    ELSE "ok"

\* str(x): the text of the value, as a string
PyStr(st) == Str(st.v)

Text_get_state(st) ==
    IF st = NO_STATE
    THEN [err |-> "ValueError", ret |-> NoReturn]
    ELSE [err |-> "ok", ret |-> [topic |-> "state", payload |-> PyStr(st)]]

\* Text.publish_config: after the base call, one message_callback_add and
\* one subscribe
Text_publish_config(registered) ==
    [registered |->
         Base_publish_config(registered, Base_register_callbacks).registered,
     adds |-> Base_publish_config(registered, Base_register_callbacks).adds + 1,
     subs |-> Base_publish_config(registered, Base_register_callbacks).subs + 1]

\* default_text_callback: component.set_state, component.publish_state
default_text_callback(new, st, lo, hi, np, now, T) ==
    IF Text_validate_state(new, lo, hi) # "ok"
    THEN [err |-> Text_validate_state(new, lo, hi), state |-> st,
          p |-> NoPublish(np)]
    ELSE [err |-> "ok", state |-> new, p |-> Base_publish_state(new, np, now, T)]

\* a handler that lets InvalidStateValue out
Text_command_callback_uncaught(payload, st, lo, hi, cbk, np, now, T) ==
    IF Text_validate_state(Str(payload), lo, hi) = "InvalidStateValue"
    THEN [err |-> "InvalidStateValue", cb |-> 0, cb_old |-> NO_STATE,
          cb_new |-> NO_STATE, state |-> st, p |-> NoPublish(np)]
    ELSE IF cbk = "default"
    THEN [err |-> default_text_callback(Str(payload), st, lo, hi, np, now, T).err,
          cb |-> 1, cb_old |-> st, cb_new |-> Str(payload),
          state |->
              default_text_callback(Str(payload), st, lo, hi, np, now, T).state,
          p |-> default_text_callback(Str(payload), st, lo, hi, np, now, T).p]
    ELSE [err |-> "ok", cb |-> 1, cb_old |-> st, cb_new |-> Str(payload),
          state |-> st, p |-> NoPublish(np)]

\* Text._command_callback: InvalidStateValue is caught, the command dropped
Text_command_callback(payload, st, lo, hi, cbk, np, now, T) ==
    IF Text_validate_state(Str(payload), lo, hi) = "InvalidStateValue"
    THEN [err |-> "ok", cb |-> 0, cb_old |-> NO_STATE, cb_new |-> NO_STATE,
          state |-> st, p |-> NoPublish(np)]
    ELSE IF cbk = "default"
    THEN [err |-> default_text_callback(Str(payload), st, lo, hi, np, now, T).err,
          cb |-> 1, cb_old |-> st, cb_new |-> Str(payload),
          state |->
              default_text_callback(Str(payload), st, lo, hi, np, now, T).state,
          p |-> default_text_callback(Str(payload), st, lo, hi, np, now, T).p]
    ELSE [err |-> "ok", cb |-> 1, cb_old |-> st, cb_new |-> Str(payload),
          state |-> st, p |-> NoPublish(np)]

(***************************************************************************)
(* components/light.py                                                     *)
(***************************************************************************)
\* the blanket operations as BaseComponent has them, not overridden
Light_set_state_inherited(candidate, st) ==
    [err |-> Base_validate_state(candidate),
     state |-> Base_set_state(candidate, st, Base_validate_state(candidate))]

\* Light.set_state, Light.publish_state, Light.get_state: each raises
\* NotImplementedError before it reads or writes anything
Light_set_state(candidate, st) == [err |-> "NotImplementedError", state |-> st]

Light_publish_state(np, now, T) ==
    [err |-> "NotImplementedError", pub |-> FALSE, np |-> np]

Light_get_state(st) == [err |-> "NotImplementedError", ret |-> NoReturn]

validate_state_switch(st) ==
    IF Base_validate_state(st) # "ok" THEN Base_validate_state(st)
    ELSE IF ~(st.t = "str" /\ st.v \in state2bool_keys)
    THEN "InvalidStateValue"
    ELSE "ok"

\* the color check without the upper limit of a channel
validate_state_rgbw_no_upper(st) ==
    IF ~(Len(st) = RGBW_LEN /\ \A i \in 1..Len(st) : st[i] >= 0)
    THEN "AssertionError"
    ELSE "ok"

\* the brightness check without the upper limit
validate_state_brightness_no_upper(st, lo, hi) ==
    IF ~(st >= lo) THEN "AssertionError" ELSE "ok"

\* st is a list of int
validate_state_rgbw(st) ==
    IF ~(Len(st) = RGBW_LEN
         /\ \A i \in 1..Len(st) : st[i] >= 0 /\ st[i] <= CHANNEL_MAX)
    THEN "AssertionError"
    ELSE "ok"

\* st is an int, which is never the unset sentinel
validate_state_brightness(st, lo, hi) ==
    IF ~(st >= lo /\ st <= hi) THEN "AssertionError" ELSE "ok"

get_state_switch(st) == [topic |-> "state/switch", payload |-> st]

get_state_rgbw(st) == [topic |-> "state/rgbw", payload |-> Str(JoinInts(st))]

get_state_brightness(st) ==
    [topic |-> "state/brightness", payload |-> Str(IntToStr(st))]

publish_state_switch(st, np, now, T) ==
    IF st = NO_STATE THEN [pub |-> FALSE, np |-> np]
    ELSE IF np > now THEN [pub |-> FALSE, np |-> np]
    ELSE [pub |-> TRUE, np |-> now + T]

\* state_rgbw is a list of int, never the unset sentinel
publish_state_rgbw(np, now, T) ==
    IF np > now THEN [pub |-> FALSE, np |-> np]
    ELSE [pub |-> TRUE, np |-> now + T]

\* publish_state_brightness without the test of the deadline
publish_state_brightness_unthrottled(np, now, T) ==
    [pub |-> TRUE, np |-> now + T]

\* state_brightness is an int, never the unset sentinel
publish_state_brightness(np, now, T) ==
    IF np > now THEN [pub |-> FALSE, np |-> np]
    ELSE [pub |-> TRUE, np |-> now + T]

\* Light.publish_config: after the base call, three message_callback_add
\* and one subscribe
Light_publish_config(registered) ==
    [registered |->
         Base_publish_config(registered, Base_register_callbacks).registered,
     adds |-> Base_publish_config(registered, Base_register_callbacks).adds + 3,
     subs |-> Base_publish_config(registered, Base_register_callbacks).subs + 1]

\* switch_light_callback: set_state_switch, then publish_state_switch
switch_light_callback(new, st, np, now, T) ==
    IF validate_state_switch(new) # "ok"
    THEN [err |-> validate_state_switch(new), state |-> st, p |-> NoPublish(np)]
    ELSE [err |-> "ok", state |-> new,
          p |-> publish_state_switch(new, np, now, T)]

\* brightness_light_callback: set_state_brightness, then
\* publish_state_brightness
brightness_light_callback(new, st, lo, hi, np, now, T) ==
    IF validate_state_brightness(new, lo, hi) # "ok"
    THEN [err |-> validate_state_brightness(new, lo, hi), state |-> st,
          p |-> NoPublish(np)]
    ELSE [err |-> "ok", state |-> new, p |-> publish_state_brightness(np, now, T)]

\* rgbw_light_callback: set_state_rgbw, then publish_state_rgbw
rgbw_light_callback(new, st, np, now, T) ==
    IF validate_state_rgbw(new) # "ok"
    THEN [err |-> validate_state_rgbw(new), state |-> st, p |-> NoPublish(np)]
    ELSE [err |-> "ok", state |-> new, p |-> publish_state_rgbw(np, now, T)]

\* [int(x.strip()) for x in payload.split(',')]
ParseRgbw(payload) ==
    [ok |-> \A i \in 1..Len(Split(payload)) :
                ParseInt(Strip(Split(payload)[i])).ok,
     val |-> [i \in 1..Len(Split(payload)) |->
                  ParseInt(Strip(Split(payload)[i])).val]]

\* Light._command_switch_callback, with the default callback_switch
command_switch_callback(payload, st, np, now, T) ==
    IF ~(payload \in state2bool_keys)
    THEN [err |-> "AssertionError", cb |-> 0, state |-> st, p |-> NoPublish(np)]
    ELSE [err |-> switch_light_callback(Str(payload), st, np, now, T).err,
          cb |-> 1,
          state |-> switch_light_callback(Str(payload), st, np, now, T).state,
          p |-> switch_light_callback(Str(payload), st, np, now, T).p]

\* Light._command_brightness_callback, with the default callback_brightness;
\* new_state is int(message.payload.decode())
command_brightness_callback(new_state, st, lo, hi, np, now, T) ==
    IF ~new_state.ok
    THEN [err |-> "ValueError", cb |-> 0, state |-> st, p |-> NoPublish(np)]
    ELSE IF validate_state_brightness(new_state.val, lo, hi) # "ok"
    THEN [err |-> validate_state_brightness(new_state.val, lo, hi), cb |-> 0,
          state |-> st, p |-> NoPublish(np)]
    ELSE [err |->
              brightness_light_callback(new_state.val, st, lo, hi, np, now, T).err,
          cb |-> 1,
          state |->
              brightness_light_callback(new_state.val, st, lo, hi, np, now, T).state,
          p |-> brightness_light_callback(new_state.val, st, lo, hi, np, now, T).p]

\* Light._command_rgbw_callback, with the default callback_rgbw; new_state
\* is the payload split at the commas, each piece stripped and parsed
command_rgbw_callback(new_state, st, np, now, T) ==
    IF ~new_state.ok
    THEN [err |-> "ValueError", cb |-> 0, state |-> st, p |-> NoPublish(np)]
    ELSE IF validate_state_rgbw(new_state.val) # "ok"
    THEN [err |-> validate_state_rgbw(new_state.val), cb |-> 0, state |-> st,
          p |-> NoPublish(np)]
    ELSE [err |-> rgbw_light_callback(new_state.val, st, np, now, T).err,
          cb |-> 1,
          state |-> rgbw_light_callback(new_state.val, st, np, now, T).state,
          p |-> rgbw_light_callback(new_state.val, st, np, now, T).p]

(***************************************************************************)
(* The temperature collector.  The host is its platform name, whether      *)
(* psutil offers sensors_temperatures, and the probes psutil reports: an   *)
(* ordered mapping, here a sequence of [name, currents] with distinct      *)
(* names and at least one reading per name.  Readings are tenths of a      *)
(* degree.                                                                 *)
(***************************************************************************)
NoHost == [system |-> "none", has_sensors_api |-> FALSE, probes |-> <<>>]

\* _get_temperatures
get_temperatures(h) ==
    IF h.system # "Linux" THEN <<>>
    ELSE IF ~h.has_sensors_api THEN <<>>
    ELSE h.probes

RECURSIVE insert_sorted(_, _)
insert_sorted(x, sorted) ==
    IF sorted = <<>> THEN <<x>>
    ELSE IF x <= Head(sorted) THEN <<x>> \o sorted
    ELSE <<Head(sorted)>> \o insert_sorted(x, Tail(sorted))

RECURSIVE sort_seq(_)
sort_seq(xs) ==
    IF xs = <<>> THEN <<>> ELSE insert_sorted(Head(xs), sort_seq(Tail(xs)))

\* statistics.median of a non-empty list: the middle of the sorted data, or
\* the mean of the two middle values
median(currents) ==
    IF Len(currents) % 2 = 1
    THEN sort_seq(currents)[(Len(currents) + 1) \div 2]
    ELSE (sort_seq(currents)[Len(currents) \div 2]
            + sort_seq(currents)[Len(currents) \div 2 + 1]) \div 2

median_temperatures(temperatures) ==
    [i \in 1..Len(temperatures) |->
        [name |-> temperatures[i].name,
         median |-> median(temperatures[i].currents)]]

get_median_temperatures(h) == median_temperatures(get_temperatures(h))

\* the names of an ordered mapping
keys(temperatures) == {temperatures[i].name : i \in 1..Len(temperatures)}

\* a number as a state payload
Num(n) == [t |-> "float", v |-> n]

\* Sensor.__init__: no state yet, nothing published
NewSensor == [state |-> NO_STATE, next_publish |-> 0, registered |-> FALSE]

NoSensors == [name \in {} |-> NewSensor]

\* TemperaturesSensors.__init__: one Sensor per name reported
TemperaturesSensors_init(h) == [name \in keys(get_temperatures(h)) |-> NewSensor]

\* Sensor.set_state
Sensor_set_state(sensor, value) ==
    [sensor EXCEPT !.state = Base_set_state(value, sensor.state,
                                            Base_validate_state(value))]

\* Sensor.publish: publish_config, then publish_state; calls counts the
\* client.publish calls made
Sensor_publish(sensor, now, T) ==
    [sensor |->
        [sensor EXCEPT
            !.registered =
                Base_publish_config(sensor.registered,
                                    Base_register_callbacks).registered,
            !.next_publish =
                Base_publish_state(sensor.state, sensor.next_publish, now, T).np],
     calls |->
        IF Base_publish_state(sensor.state, sensor.next_publish, now, T).pub
        THEN 2
        ELSE 1]

\* the loop of TemperaturesSensors.publish from item i on; calls are the
\* client calls made so far
RECURSIVE publish_loop(_, _, _, _, _, _)
publish_loop(temperatures, i, ss, calls, now, T) ==
    IF i > Len(temperatures) THEN [err |-> "ok", sensors |-> ss, calls |-> calls]
    ELSE IF temperatures[i].name \notin DOMAIN ss
    THEN [err |-> "KeyError", sensors |-> ss, calls |-> calls]
    ELSE LET name == temperatures[i].name
             sensor == Sensor_set_state(ss[name], Num(temperatures[i].median))
             p == Sensor_publish(sensor, now, T)
         IN publish_loop(temperatures, i + 1, [ss EXCEPT ![name] = p.sensor],
                         calls + p.calls, now, T)

\* TemperaturesSensors.publish that would create the sensors it misses
TemperaturesSensors_publish_refreshing(h, ss, now, T) ==
    publish_loop(get_median_temperatures(h), 1,
                 [name \in DOMAIN ss \cup keys(get_temperatures(h)) |->
                     IF name \in DOMAIN ss THEN ss[name] ELSE NewSensor],
                 0, now, T)

\* TemperaturesSensors.publish
TemperaturesSensors_publish(h, ss, now, T) ==
    publish_loop(get_median_temperatures(h), 1, ss, 0, now, T)

(***************************************************************************)
(* Inputs: the arguments of the calls and the payloads of the commands.    *)
(***************************************************************************)
LONG_TEXT == NO_TEXT_PROVIDED \o <<"!">>

TwoLiteralInputs ==
    {Str(ON), Str(OFF), Str(<<"o", "n">>), IntVal(<<"1">>), NO_STATE}

SwitchPayloads == {ON, OFF, <<"o", "n">>, <<>>}

TextStrings == {<<>>, <<"a", "b", "c">>, NO_TEXT_PROVIDED, LONG_TEXT}

TextInputs == {Str(s) : s \in TextStrings} \cup {IntVal(<<"7">>), NO_STATE}

\* (min_length, max_length)
TextLimits ==
    {<<TEXT_MIN_LENGTH_DEFAULT, TEXT_MAX_LENGTH_DEFAULT>>, <<1, 3>>,
     <<17, TEXT_MAX_LENGTH_DEFAULT>>, <<TEXT_MIN_LENGTH_DEFAULT, 15>>,
     <<1, 16>>}

\* (min_brightness, max_brightness, default_brightness)
LightLimits ==
    {<<0, MAX_BRIGHTNESS, MAX_BRIGHTNESS>>, <<0, 100, 100>>,
     <<0, 100, MAX_BRIGHTNESS>>}

BrightnessInputs ==
    {min_brightness - 1, min_brightness, max_brightness, max_brightness + 1, 150}

BrightnessPayloads ==
    {IntToStr(n) : n \in BrightnessInputs}
        \cup {<<"a", "b">>, <<>>, <<" ", "0", " ">>}

DEFAULT_RGBW == <<MAX_BRIGHTNESS, MAX_BRIGHTNESS, MAX_BRIGHTNESS, MAX_BRIGHTNESS>>

RgbwInputs ==
    {DEFAULT_RGBW, <<255, 0, 128, 7>>, <<0, 0, 0>>, <<0, 0, 0, 0, 0>>,
     <<256, 0, 0, 0>>, <<0, 0, 0, -1>>, <<>>}

RgbwPayloads ==
    {JoinInts(x) : x \in RgbwInputs}
        \cup {<<"2", "5", "5", ",", " ", "0", " ", ",", "1", "2", "8", ",", "7">>,
              <<"1", ",", "x", ",", "3", ",", "4">>}

\* the values of the valid commands
ValidBrightness == {min_brightness, max_brightness}

ValidRgbw == {DEFAULT_RGBW, <<255, 0, 128, 7>>}

\* (platform.system(), psutil has sensors_temperatures)
Platforms ==
    {<<"Linux", TRUE>>, <<"Linux", FALSE>>, <<"Windows", FALSE>>,
     <<"FreeBSD", TRUE>>}

\* what psutil.sensors_temperatures() may report
ProbeSets ==
    {<<>>,
     <<[name |-> "coretemp", currents |-> <<450, 400>>]>>,
     <<[name |-> "acpitz", currents |-> <<300>>],
       [name |-> "coretemp", currents |-> <<520, 400, 470>>]>>,
     <<[name |-> "acpitz", currents |-> <<310>>],
       [name |-> "nvme", currents |-> <<350>>],
       [name |-> "coretemp", currents |-> <<500>>]>>}

Delays == 0..MaxDelay

(***************************************************************************)
(* Construction.                                                           *)
(***************************************************************************)
\* BaseComponent.__init__: the fields every component starts with
InitBase(k, T) ==
    /\ kind = k
    /\ throttle_sec = T
    /\ next_publish = 0
    /\ callbacks_registered = FALSE
    /\ clock = 0
    /\ n_config = 0
    /\ n_callback_add = 0
    /\ n_subscribe = 0
    /\ sent = [tp \in StateTopics |-> Nothing]
    /\ pub_at = [tp \in StateTopics |-> -1]
    /\ last = NoLast

NotLight ==
    /\ state_switch = NO_STATE
    /\ state_brightness = 0
    /\ state_rgbw = <<>>
    /\ min_brightness = 0
    /\ max_brightness = 0

NotText ==
    /\ min_length = 0
    /\ max_length = 0

\* no TemperaturesSensors object
NotCollector ==
    /\ host = NoHost
    /\ sensors = NoSensors
    /\ transport_calls = 0

\* BinarySensor.__init__
InitBinarySensor ==
    \E T \in 0..MaxThrottle, arg \in {NO_STATE, Str(ON)} :
        /\ InitBase("binary_sensor", T)
        /\ initial_state = arg
        /\ state = arg
        /\ callback = "none"
        /\ ctor = "ok"
        /\ NotLight
        /\ NotText
        /\ NotCollector

\* Switch.__init__
InitSwitch ==
    \E T \in 0..MaxThrottle, arg \in {NO_STATE, Str(OFF)},
       cb \in {"default", "noop"} :
        /\ InitBase("switch", T)
        /\ initial_state = arg
        /\ state = arg
        /\ callback = cb
        /\ ctor = "ok"
        /\ NotLight
        /\ NotText
        /\ NotCollector

\* Text.__init__: without an initial_state the placeholder goes through
\* set_state
InitText ==
    \E T \in 0..MaxThrottle, lim \in TextLimits, cb \in {"default", "noop"} :
    \E arg \in
        {NO_STATE} \cup {s \in {Str(<<"a", "b", "c">>), Str(LONG_TEXT)} :
                            Text_validate_state(s, lim[1], lim[2]) = "ok"} :
        /\ InitBase("text", T)
        /\ min_length = lim[1]
        /\ max_length = lim[2]
        /\ callback = cb
        /\ initial_state = arg
        /\ ctor = IF arg = NO_STATE
                  THEN Text_validate_state(Str(NO_TEXT_PROVIDED), lim[1], lim[2])
                  ELSE "ok"
        /\ state = IF arg = NO_STATE /\ ctor = "ok"
                   THEN Str(NO_TEXT_PROVIDED)
                   ELSE arg
        /\ NotLight
        /\ NotCollector

\* Light.__init__: the three defaults go through set_state_switch,
\* set_state_brightness and set_state_rgbw, in this order
InitLight ==
    \E T \in 0..MaxThrottle, lim \in LightLimits :
        /\ InitBase("light", T)
        /\ initial_state = NO_STATE
        /\ state = NO_STATE
        /\ callback = "default"
        /\ min_brightness = lim[1]
        /\ max_brightness = lim[2]
        /\ ctor = IF validate_state_switch(Str(ON)) # "ok"
                  THEN validate_state_switch(Str(ON))
                  ELSE IF validate_state_brightness(lim[3], lim[1], lim[2]) # "ok"
                  THEN validate_state_brightness(lim[3], lim[1], lim[2])
                  ELSE validate_state_rgbw(DEFAULT_RGBW)
        /\ state_switch = Str(ON)
        /\ state_brightness = IF ctor = "ok" THEN lim[3] ELSE lim[1]
        /\ state_rgbw = DEFAULT_RGBW
        /\ NotText
        /\ NotCollector

\* TemperaturesSensors.__init__ on a host
InitTemperatures ==
    \E T \in 0..MaxThrottle, pf \in Platforms, probes \in ProbeSets :
        /\ InitBase("temperatures", T)
        /\ initial_state = NO_STATE
        /\ state = NO_STATE
        /\ callback = "none"
        /\ ctor = "ok"
        /\ NotLight
        /\ NotText
        /\ host = [system |-> pf[1], has_sensors_api |-> pf[2],
                   probes |-> probes]
        /\ sensors = TemperaturesSensors_init(host)
        /\ transport_calls = 0

InitComponent == InitBinarySensor \/ InitSwitch \/ InitText

(***************************************************************************)
(* The calls on a BinarySensor, Switch or Text.                            *)
(***************************************************************************)
Usable == ctor = "ok"

SimpleKinds == {"binary_sensor", "switch", "text"}

\* self.validate_state and self.get_state of the component at hand
Self_validate_state(st) ==
    CASE kind = "binary_sensor" -> BinarySensor_validate_state(st)
      [] kind = "switch" -> Switch_validate_state(st)
      [] kind = "text" -> Text_validate_state(st, min_length, max_length)

Self_get_state(st) ==
    CASE kind = "binary_sensor" -> BinarySensor_get_state(st)
      [] kind = "switch" -> Switch_get_state(st)
      [] kind = "text" -> Text_get_state(st)

\* client.publish(topic, payload) when pub
SentAfter(s, topic, payload, pub) ==
    IF pub THEN [s EXCEPT ![topic] = Payload(payload.v)] ELSE s

PubsOf(pub) == IF pub THEN 1 ELSE 0

\* the time of that client.publish, kept for the topic
PubAtAfter(at, topic, now, pub) == IF pub THEN [at EXCEPT ![topic] = now] ELSE at

\* what one publish_state call leaves behind: deadline and transport
AfterPublish(topic, payload, r) ==
    /\ next_publish' = r.np
    /\ sent' = SentAfter(sent, topic, payload, r.pub)
    /\ pub_at' = PubAtAfter(pub_at, topic, clock, r.pub)

SetInputs == IF kind = "text" THEN TextInputs ELSE TwoLiteralInputs

SetState(v) ==
    /\ Usable
    /\ kind \in SimpleKinds
    /\ v \in SetInputs
    /\ state' = Base_set_state(v, state, Self_validate_state(v))
    /\ last' = [NoLast EXCEPT !.op = "set_state",
                              !.err = Self_validate_state(v)]
    /\ UNCHANGED <<config_vars, collector_vars, state_switch, state_brightness, state_rgbw,
                   next_publish, clock, client_vars, sent, pub_at>>

GetState ==
    /\ Usable
    /\ kind \in SimpleKinds
    /\ last' = [NoLast EXCEPT !.op = "get_state",
                              !.err = Self_get_state(state).err,
                              !.ret = Self_get_state(state).ret]
    /\ UNCHANGED <<config_vars, collector_vars, state_vars, next_publish, clock, client_vars,
                   sent, pub_at>>

IsOn ==
    /\ Usable
    /\ kind = "binary_sensor"
    /\ last' = [NoLast EXCEPT !.op = "is_on",
                              !.flag = BinarySensor_is_on(state)]
    /\ UNCHANGED <<config_vars, collector_vars, state_vars, next_publish, clock, client_vars,
                   sent, pub_at>>

PublishState ==
    /\ Usable
    /\ kind \in SimpleKinds
    /\ \E r \in {Base_publish_state(state, next_publish, clock, throttle_sec)} :
           /\ AfterPublish("state", Self_get_state(state).ret.payload, r)
           /\ last' = [NoLast EXCEPT !.op = "publish_state",
                                     !.pubs = PubsOf(r.pub)]
    /\ UNCHANGED <<config_vars, collector_vars, state_vars, clock, client_vars>>

PublishConfig ==
    /\ Usable
    /\ n_config < MaxConfigCalls
    /\ \E c \in {CASE kind = "binary_sensor" ->
                        Base_publish_config(callbacks_registered,
                                            Base_register_callbacks)
                   [] kind = "switch" ->
                        Base_publish_config(callbacks_registered,
                                            Switch_register_callbacks)
                   [] kind = "text" -> Text_publish_config(callbacks_registered)
                   [] kind = "light" ->
                        Light_publish_config(callbacks_registered)} :
           /\ callbacks_registered' = c.registered
           /\ n_callback_add' = n_callback_add + c.adds
           /\ n_subscribe' = n_subscribe + c.subs
    /\ n_config' = n_config + 1
    /\ last' = [NoLast EXCEPT !.op = "publish_config"]
    /\ UNCHANGED <<config_vars, collector_vars, state_vars, next_publish, clock, sent, pub_at>>

SwitchCommand(payload) ==
    /\ Usable
    /\ kind = "switch"
    /\ \E r \in {Switch_command_callback(payload, state, callback, next_publish,
                                        clock, throttle_sec)} :
           /\ state' = r.state
           /\ AfterPublish("state", Switch_get_state(r.state).ret.payload, r.p)
           /\ last' = [NoLast EXCEPT !.op = "command", !.err = r.err,
                                     !.cb = r.cb, !.cb_old = r.cb_old,
                                     !.cb_new = r.cb_new,
                                     !.pubs = PubsOf(r.p.pub)]
    /\ UNCHANGED <<config_vars, collector_vars, state_switch, state_brightness, state_rgbw,
                   clock, client_vars>>

TextCommand(payload) ==
    /\ Usable
    /\ kind = "text"
    /\ \E r \in {Text_command_callback(payload, state, min_length, max_length,
                                      callback, next_publish, clock,
                                      throttle_sec)} :
           /\ state' = r.state
           /\ AfterPublish("state", Text_get_state(r.state).ret.payload, r.p)
           /\ last' = [NoLast EXCEPT !.op = "command", !.err = r.err,
                                     !.cb = r.cb, !.cb_old = r.cb_old,
                                     !.cb_new = r.cb_new,
                                     !.pubs = PubsOf(r.p.pub)]
    /\ UNCHANGED <<config_vars, collector_vars, state_switch, state_brightness, state_rgbw,
                   clock, client_vars>>

\* time passes between two calls
Tick ==
    /\ Usable
    /\ clock < MaxTime
    /\ clock' = clock + 1
    /\ last' = [NoLast EXCEPT !.op = "tick"]
    /\ UNCHANGED <<config_vars, collector_vars, state_vars, next_publish, client_vars, sent,
                   pub_at>>

(***************************************************************************)
(* The calls on a Light.                                                   *)
(***************************************************************************)
IsLight == Usable /\ kind = "light"

SetStateSwitch(v) ==
    /\ IsLight
    /\ v \in TwoLiteralInputs
    /\ state_switch' = IF validate_state_switch(v) = "ok" THEN v ELSE state_switch
    /\ last' = [NoLast EXCEPT !.op = "set_state_switch",
                              !.err = validate_state_switch(v)]
    /\ UNCHANGED <<config_vars, collector_vars, state, state_brightness, state_rgbw,
                   next_publish, clock, client_vars, sent, pub_at>>

SetStateBrightness(n) ==
    /\ IsLight
    /\ n \in BrightnessInputs
    /\ \E err \in {validate_state_brightness(n, min_brightness,
                                            max_brightness)} :
           /\ state_brightness' = IF err = "ok" THEN n ELSE state_brightness
           /\ last' = [NoLast EXCEPT !.op = "set_state_brightness",
                                     !.err = err]
    /\ UNCHANGED <<config_vars, collector_vars, state, state_switch, state_rgbw, next_publish,
                   clock, client_vars, sent, pub_at>>

SetStateRgbw(x) ==
    /\ IsLight
    /\ x \in RgbwInputs
    /\ state_rgbw' = IF validate_state_rgbw(x) = "ok" THEN x ELSE state_rgbw
    /\ last' = [NoLast EXCEPT !.op = "set_state_rgbw",
                              !.err = validate_state_rgbw(x)]
    /\ UNCHANGED <<config_vars, collector_vars, state, state_switch, state_brightness,
                   next_publish, clock, client_vars, sent, pub_at>>

PublishStateSwitch ==
    /\ IsLight
    /\ \E r \in {publish_state_switch(state_switch, next_publish, clock,
                                     throttle_sec)} :
           /\ AfterPublish("state/switch",
                           get_state_switch(state_switch).payload, r)
           /\ last' = [NoLast EXCEPT !.op = "publish_state_switch",
                                     !.pubs = PubsOf(r.pub)]
    /\ UNCHANGED <<config_vars, collector_vars, state_vars, clock, client_vars>>

PublishStateRgbw ==
    /\ IsLight
    /\ \E r \in {publish_state_rgbw(next_publish, clock, throttle_sec)} :
           /\ AfterPublish("state/rgbw", get_state_rgbw(state_rgbw).payload, r)
           /\ last' = [NoLast EXCEPT !.op = "publish_state_rgbw",
                                     !.pubs = PubsOf(r.pub)]
    /\ UNCHANGED <<config_vars, collector_vars, state_vars, clock, client_vars>>

PublishStateBrightness ==
    /\ IsLight
    /\ \E r \in {publish_state_brightness(next_publish, clock, throttle_sec)} :
           /\ AfterPublish("state/brightness",
                           get_state_brightness(state_brightness).payload, r)
           /\ last' = [NoLast EXCEPT !.op = "publish_state_brightness",
                                     !.pubs = PubsOf(r.pub)]
    /\ UNCHANGED <<config_vars, collector_vars, state_vars, clock, client_vars>>

\* Light.publish: publish_config, publish_state_switch, publish_state_rgbw,
\* publish_state_brightness; g2 passes before the second of the three state
\* calls, g3 before the third
LightPublish(g2, g3) ==
    /\ IsLight
    /\ n_config < MaxConfigCalls
    /\ clock + g2 + g3 <= MaxTime
    /\ \E c \in {Light_publish_config(callbacks_registered)},
          r1 \in {publish_state_switch(state_switch, next_publish, clock,
                                       throttle_sec)} :
       \E r2 \in {publish_state_rgbw(r1.np, clock + g2, throttle_sec)} :
       \E r3 \in {publish_state_brightness(r2.np, clock + g2 + g3,
                                           throttle_sec)} :
           /\ callbacks_registered' = c.registered
           /\ n_callback_add' = n_callback_add + c.adds
           /\ n_subscribe' = n_subscribe + c.subs
           /\ n_config' = n_config + 1
           /\ next_publish' = r3.np
           /\ clock' = clock + g2 + g3
           /\ sent' = SentAfter(
                          SentAfter(
                              SentAfter(sent, "state/switch",
                                        get_state_switch(state_switch).payload,
                                        r1.pub),
                              "state/rgbw", get_state_rgbw(state_rgbw).payload,
                              r2.pub),
                          "state/brightness",
                          get_state_brightness(state_brightness).payload, r3.pub)
           /\ pub_at' = PubAtAfter(
                            PubAtAfter(
                                PubAtAfter(pub_at, "state/switch", clock, r1.pub),
                                "state/rgbw", clock + g2, r2.pub),
                            "state/brightness", clock + g2 + g3, r3.pub)
           /\ last' = [NoLast EXCEPT !.op = "publish",
                                     !.pubs = PubsOf(r1.pub) + PubsOf(r2.pub)
                                                  + PubsOf(r3.pub)]
    /\ UNCHANGED <<config_vars, collector_vars, state_vars>>

CommandSwitch(payload) ==
    /\ IsLight
    /\ \E r \in {command_switch_callback(payload, state_switch, next_publish,
                                        clock, throttle_sec)} :
           /\ state_switch' = r.state
           /\ AfterPublish("state/switch", get_state_switch(r.state).payload,
                           r.p)
           /\ last' = [NoLast EXCEPT !.op = "command_switch", !.err = r.err,
                                     !.cb = r.cb, !.pubs = PubsOf(r.p.pub)]
    /\ UNCHANGED <<config_vars, collector_vars, state, state_brightness, state_rgbw, clock,
                   client_vars>>

CommandBrightness(payload) ==
    /\ IsLight
    /\ \E new_state \in {ParseInt(payload)} :
       \E r \in {command_brightness_callback(new_state, state_brightness,
                                            min_brightness, max_brightness,
                                            next_publish, clock,
                                            throttle_sec)} :
           /\ state_brightness' = r.state
           /\ AfterPublish("state/brightness",
                           get_state_brightness(r.state).payload, r.p)
           /\ last' = [NoLast EXCEPT !.op = "command_brightness",
                                     !.err = r.err, !.cb = r.cb,
                                     !.pubs = PubsOf(r.p.pub)]
    /\ UNCHANGED <<config_vars, collector_vars, state, state_switch, state_rgbw, clock,
                   client_vars>>

CommandRgbw(payload) ==
    /\ IsLight
    /\ \E new_state \in {ParseRgbw(payload)} :
       \E r \in {command_rgbw_callback(new_state, state_rgbw, next_publish,
                                      clock, throttle_sec)} :
           /\ state_rgbw' = r.state
           /\ AfterPublish("state/rgbw", get_state_rgbw(r.state).payload, r.p)
           /\ last' = [NoLast EXCEPT !.op = "command_rgbw", !.err = r.err,
                                     !.cb = r.cb, !.pubs = PubsOf(r.p.pub)]
    /\ UNCHANGED <<config_vars, collector_vars, state, state_switch, state_brightness, clock,
                   client_vars>>

\* the blanket operations of a Light
LightSetState(v) ==
    /\ IsLight
    /\ v \in TwoLiteralInputs
    /\ \E r \in {Light_set_state(v, state)} :
           /\ state' = r.state
           /\ last' = [NoLast EXCEPT !.op = "light_set_state", !.err = r.err]
    /\ UNCHANGED <<config_vars, collector_vars, state_switch, state_brightness, state_rgbw,
                   next_publish, clock, client_vars, sent, pub_at>>

LightGetState ==
    /\ IsLight
    /\ \E r \in {Light_get_state(state)} :
           last' = [NoLast EXCEPT !.op = "light_get_state", !.err = r.err,
                                  !.ret = r.ret]
    /\ UNCHANGED <<config_vars, collector_vars, state_vars, next_publish, clock, client_vars,
                   sent, pub_at>>

LightPublishState ==
    /\ IsLight
    /\ \E r \in {Light_publish_state(next_publish, clock, throttle_sec)} :
           /\ AfterPublish("state", state, r)
           /\ last' = [NoLast EXCEPT !.op = "light_publish_state",
                                     !.err = r.err, !.pubs = PubsOf(r.pub)]
    /\ UNCHANGED <<config_vars, collector_vars, state_vars, clock, client_vars>>

(***************************************************************************)
(* The calls on a TemperaturesSensors and the changes of its host.         *)
(***************************************************************************)
IsCollector == Usable /\ kind = "temperatures"

\* the host reports other probes than before
HostChanges(probes) ==
    /\ IsCollector
    /\ probes # host.probes
    /\ host' = [host EXCEPT !.probes = probes]
    /\ last' = [NoLast EXCEPT !.op = "host_changes"]
    /\ UNCHANGED <<config_vars, state_vars, next_publish, clock, client_vars,
                   sent, pub_at, sensors, transport_calls>>

TemperaturesPublish ==
    /\ IsCollector
    /\ \E r \in {TemperaturesSensors_publish(host, sensors, clock,
                                              throttle_sec)} :
           /\ sensors' = r.sensors
           /\ transport_calls' = r.calls
           /\ last' = [NoLast EXCEPT !.op = "temperatures_publish",
                                     !.err = r.err]
    /\ UNCHANGED <<config_vars, state_vars, next_publish, clock, client_vars,
                   sent, pub_at, host>>

(***************************************************************************)
(* The specifications: the components with one state, the states of a      *)
(* Light, the publishing of a Light.                                       *)
(***************************************************************************)
NextComponent ==
    \/ \E v \in SetInputs : SetState(v)
    \/ GetState
    \/ IsOn
    \/ PublishState
    \/ PublishConfig
    \/ \E payload \in SwitchPayloads : SwitchCommand(payload)
    \/ \E payload \in TextStrings : TextCommand(payload)
    \/ Tick

SpecComponent == InitComponent /\ [][NextComponent]_vars

NextLightState ==
    \/ \E v \in TwoLiteralInputs : SetStateSwitch(v)
    \/ \E n \in BrightnessInputs : SetStateBrightness(n)
    \/ \E x \in RgbwInputs : SetStateRgbw(x)
    \/ \E payload \in SwitchPayloads : CommandSwitch(payload)
    \/ \E payload \in BrightnessPayloads : CommandBrightness(payload)
    \/ \E payload \in RgbwPayloads : CommandRgbw(payload)

SpecLightState == InitLight /\ [][NextLightState]_vars

NextLightThrottle ==
    \/ PublishStateSwitch
    \/ PublishStateRgbw
    \/ PublishStateBrightness
    \/ \E g2 \in Delays, g3 \in Delays : LightPublish(g2, g3)
    \/ PublishConfig
    \/ \E payload \in SwitchPayloads : CommandSwitch(payload)
    \/ Tick

SpecLightThrottle == InitLight /\ [][NextLightThrottle]_vars

\* a Light whose sub-states, deadline and clock move, and the blanket
\* operations on it
NextLightBlanket ==
    \/ \E v \in TwoLiteralInputs : LightSetState(v)
    \/ LightGetState
    \/ LightPublishState
    \/ \E v \in TwoLiteralInputs : SetStateSwitch(v)
    \/ \E n \in BrightnessInputs : SetStateBrightness(n)
    \/ PublishStateBrightness
    \/ Tick

SpecLightBlanket == InitLight /\ [][NextLightBlanket]_vars

\* a Light that gets valid commands and publishes its sub-states while time
\* passes
NextLightStale ==
    \/ \E payload \in {ON, OFF} : CommandSwitch(payload)
    \/ \E n \in ValidBrightness :
           \E payload \in {IntToStr(n)} : CommandBrightness(payload)
    \/ \E x \in ValidRgbw : \E payload \in {JoinInts(x)} : CommandRgbw(payload)
    \/ PublishStateSwitch
    \/ PublishStateRgbw
    \/ PublishStateBrightness
    \/ Tick

\* Light(throttle_sec=T) with T > 0 and the default brightness limits
InitLightThrottled ==
    /\ InitLight
    /\ throttle_sec > 0
    /\ max_brightness = MAX_BRIGHTNESS

SpecLightStale == InitLightThrottled /\ [][NextLightStale]_vars

\* a temperature collector on a host whose probes come and go
NextTemperatures ==
    \/ \E probes \in ProbeSets : HostChanges(probes)
    \/ TemperaturesPublish
    \/ Tick

SpecTemperatures == InitTemperatures /\ [][NextTemperatures]_vars

(***************************************************************************)
(* The claims.                                                             *)
(***************************************************************************)
\* C1: on a component that owns a command topic (Switch, Text, Light), any
\* number of publish_config calls registers the command callbacks and
\* subscribes to the command topic once: one message_callback_add per
\* command topic (three on a Light) and one subscribe.
C1_RegisteredOnce ==
    kind \in {"switch", "text", "light"} =>
        /\ n_subscribe <= 1
        /\ n_callback_add <= IF kind = "light" THEN 3 ELSE 1

\* C2: with a throttle interval > 0 the three sub-states of a Light are
\* throttled independently: a call of one publish-state operation is never
\* skipped because of a publish another one made, so after a call of
\* publish_state_switch, publish_state_rgbw or publish_state_brightness its
\* topic has been published, and after Light.publish all three have been.
C2_IndependentThrottle ==
    (kind = "light" /\ throttle_sec > 0) =>
        /\ last.op = "publish_state_switch" => sent["state/switch"].has
        /\ last.op = "publish_state_rgbw" => sent["state/rgbw"].has
        /\ last.op = "publish_state_brightness" => sent["state/brightness"].has
        /\ last.op = "publish" =>
               /\ sent["state/switch"].has
               /\ sent["state/rgbw"].has
               /\ sent["state/brightness"].has

\* C3: with a throttle interval T > 0, after a publish-state operation
\* published at time t, a further call of the same operation before t + T
\* publishes nothing and leaves the deadline unchanged, and its first call at
\* or after t + T publishes once and sets the deadline to that time + T.
C3_ThrottleInterval ==
    [][(kind = "light" /\ throttle_sec > 0) =>
           /\ (PublishStateSwitch /\ pub_at["state/switch"] >= 0) =>
                  IF clock < pub_at["state/switch"] + throttle_sec
                  THEN last'.pubs = 0 /\ next_publish' = next_publish
                  ELSE last'.pubs = 1 /\ next_publish' = clock + throttle_sec
           /\ (PublishStateRgbw /\ pub_at["state/rgbw"] >= 0) =>
                  IF clock < pub_at["state/rgbw"] + throttle_sec
                  THEN last'.pubs = 0 /\ next_publish' = next_publish
                  ELSE last'.pubs = 1 /\ next_publish' = clock + throttle_sec
           /\ (PublishStateBrightness /\ pub_at["state/brightness"] >= 0) =>
                  IF clock < pub_at["state/brightness"] + throttle_sec
                  THEN last'.pubs = 0 /\ next_publish' = next_publish
                  ELSE last'.pubs = 1 /\ next_publish' = clock + throttle_sec
      ]_vars

\* C4: on a constructed Light, whatever set_state_switch, set_state_brightness,
\* set_state_rgbw calls and switch, brightness and color commands came, the
\* brightness is within [min_brightness, max_brightness] and the color is 4
\* integers, each within [0, 255].
C4_LightRanges ==
    (kind = "light" /\ ctor = "ok") =>
        /\ state_brightness \in min_brightness..max_brightness
        /\ Len(state_rgbw) = 4
        /\ \A i \in 1..Len(state_rgbw) : state_rgbw[i] \in 0..255

\* a brightness command was refused after the color and the brightness had
\* been changed
C4_Witness ==
    /\ kind = "light"
    /\ state_rgbw = <<255, 0, 128, 7>>
    /\ state_brightness = min_brightness
    /\ last.op = "command_brightness"
    /\ last.err = "AssertionError"

\* C5: on a Light, set_state_brightness with an integer outside
\* [min_brightness, max_brightness] and set_state_rgbw with a tuple of the
\* wrong length or with an element outside [0, 255] fail, and leave the three
\* sub-states and the throttle deadline as they were.
C5_InvalidSetLeavesState ==
    [][/\ \A n \in BrightnessInputs :
              (SetStateBrightness(n) /\ n \notin min_brightness..max_brightness)
                  => /\ last'.err # "ok"
                     /\ UNCHANGED <<state_switch, state_brightness, state_rgbw,
                                    next_publish>>
       /\ \A x \in RgbwInputs :
              (/\ SetStateRgbw(x)
               /\ (Len(x) # 4 \/ \E i \in 1..Len(x) : x[i] \notin 0..255))
                  => /\ last'.err # "ok"
                     /\ UNCHANGED <<state_switch, state_brightness, state_rgbw,
                                    next_publish>>
      ]_vars

\* set_state_rgbw failed on a Light whose color, brightness and deadline had
\* been changed before
C5_Witness ==
    /\ kind = "light"
    /\ last.op = "set_state_rgbw"
    /\ last.err # "ok"
    /\ state_rgbw = <<255, 0, 128, 7>>
    /\ state_brightness = min_brightness
    /\ next_publish > 0

\* C6: a validate or set operation that refuses a value fails with
\* InvalidStateValue, for every component kind and every sub-state.
C6_OnlyInvalidState ==
    last.op \in {"set_state", "set_state_switch", "set_state_brightness",
                 "set_state_rgbw"}
        => last.err \in {"ok", "InvalidStateValue"}

\* C7: on a BinarySensor, Switch or Text, get_state fails exactly when the
\* state is the unset sentinel; otherwise it returns the state topic and the
\* state as payload and changes nothing; a successful set_state leaves a set
\* state, and a set state is never unset again.
C7_GetStateFailsIffUnset ==
    [][/\ GetState =>
              /\ (last'.err # "ok") <=> (state = NO_STATE)
              /\ state # NO_STATE =>
                     last'.ret = [topic |-> "state", payload |-> state]
              /\ UNCHANGED <<config_vars, collector_vars, state_vars, next_publish, clock,
                             client_vars, sent>>
       /\ ((\E v \in SetInputs : SetState(v)) /\ last'.err = "ok")
              => state' # NO_STATE
       /\ state # NO_STATE => state' # NO_STATE
      ]_vars

\* get_state failed on a Switch that no set_state had reached
C7_Witness ==
    /\ kind = "switch"
    /\ state = NO_STATE
    /\ last.op = "get_state"
    /\ last.err = "AssertionError"

\* C8: the command handler of a Switch, for a payload 'ON' or 'OFF', invokes
\* the callback once with old_state the current state and new_state the
\* payload, and changes the state only by the set_state of that callback
\* (with a callback that does nothing, the state stays and nothing is
\* published); for another payload it invokes no callback and the state
\* stays.
C8_SwitchCommandFrame ==
    [][\A payload \in SwitchPayloads :
           SwitchCommand(payload) =>
               IF payload \in {ON, OFF}
               THEN /\ last'.cb = 1
                    /\ last'.cb_old = state
                    /\ last'.cb_new = Str(payload)
                    /\ callback = "default" => state' = Str(payload)
                    /\ callback = "noop" =>
                           /\ state' = state
                           /\ last'.pubs = 0
                           /\ UNCHANGED <<sent, next_publish>>
               ELSE /\ last'.cb = 0
                    /\ state' = state
      ]_vars

\* a Switch whose callback does nothing got the command 'ON' while 'OFF'
C8_Witness ==
    /\ kind = "switch"
    /\ callback = "noop"
    /\ last.op = "command"
    /\ last.cb = 1
    /\ last.cb_old = Str(OFF)
    /\ last.cb_new = Str(ON)
    /\ state = Str(OFF)

\* C9: the command handler of a Text, for a payload shorter than min_length
\* or longer than max_length, returns normally, invokes no callback, leaves
\* the state and publishes nothing.
C9_TextInvalidCommandDropped ==
    [][\A payload \in TextStrings :
           (/\ (Len(payload) < min_length \/ Len(payload) > max_length)
            /\ TextCommand(payload))
               => /\ last'.err = "ok"
                  /\ last'.cb = 0
                  /\ last'.pubs = 0
                  /\ UNCHANGED <<state, sent, next_publish>>
      ]_vars

\* a Text of at most 3 characters dropped a command
C9_Witness ==
    /\ kind = "text"
    /\ max_length = 3
    /\ state = Str(<<"a", "b", "c">>)
    /\ last.op = "command"
    /\ last.err = "ok"
    /\ last.cb = 0

\* C10: on a BinarySensor or a Switch in any state, after set_state('ON') or
\* set_state('OFF') get_state returns that literal as payload, and is_on of
\* a BinarySensor is True for 'ON' and False for 'OFF': the last write wins.
C10_SetGetRoundTrip ==
    [][\A v \in {Str(ON), Str(OFF)} :
           (SetState(v) /\ kind \in {"binary_sensor", "switch"})
               => /\ last'.err = "ok"
                  /\ Self_get_state(state').err = "ok"
                  /\ Self_get_state(state').ret.payload = v
                  /\ kind = "binary_sensor" =>
                         BinarySensor_is_on(state') =
                             IF v = Str(ON) THEN "True" ELSE "False"
      ]_vars

\* is_on answered False on a BinarySensor constructed unset or 'ON'
C10_Witness ==
    /\ kind = "binary_sensor"
    /\ state = Str(OFF)
    /\ last.op = "is_on"
    /\ last.flag = "False"

\* C11: on a Light, set_state, get_state and publish_state fail with a usage
\* error (NotImplementedError) in every state and for every argument, leave
\* the three sub-states and the throttle deadline as they were and make no
\* call on the transport.
C11_BlanketOperationsDisabled ==
    [][((\E v \in TwoLiteralInputs : LightSetState(v))
            \/ LightGetState \/ LightPublishState)
           => /\ last'.err = "NotImplementedError"
              /\ last'.pubs = 0
              /\ UNCHANGED <<state, state_switch, state_brightness, state_rgbw,
                             next_publish, sent, client_vars>>
      ]_vars

\* set_state failed on a Light whose sub-states and deadline had been changed
C11_Witness ==
    /\ kind = "light"
    /\ last.op = "light_set_state"
    /\ last.err = "NotImplementedError"
    /\ state_switch = Str(OFF)
    /\ state_brightness = min_brightness
    /\ next_publish > 0
    /\ sent["state/brightness"].has

\* C13: on a Light with the default callbacks and a throttle interval > 0, a
\* valid switch, brightness or color command that comes before the deadline
\* sets the sub-state to the commanded value and publishes nothing, so the
\* payload last published on the topic of the sub-state may differ from it;
\* a later call of the publish-state operation at or after the deadline
\* publishes the sub-state as it then is.
C13_ThrottledCommandStale ==
    [][(kind = "light" /\ throttle_sec > 0) =>
           /\ \A payload \in {ON, OFF} :
                  (/\ next_publish > clock
                   /\ last'.op = "command_switch"
                   /\ CommandSwitch(payload))
                      => /\ state_switch' = Str(payload)
                         /\ last'.err = "ok"
                         /\ last'.pubs = 0
                         /\ UNCHANGED sent
           /\ \A n \in ValidBrightness :
                  (/\ next_publish > clock
                   /\ last'.op = "command_brightness"
                   /\ \E payload \in {IntToStr(n)} : CommandBrightness(payload))
                      => /\ state_brightness' = n
                         /\ last'.err = "ok"
                         /\ last'.pubs = 0
                         /\ UNCHANGED sent
           /\ \A x \in ValidRgbw :
                  (/\ next_publish > clock
                   /\ last'.op = "command_rgbw"
                   /\ \E payload \in {JoinInts(x)} : CommandRgbw(payload))
                      => /\ state_rgbw' = x
                         /\ last'.err = "ok"
                         /\ last'.pubs = 0
                         /\ UNCHANGED sent
           /\ (/\ next_publish <= clock
               /\ last'.op = "publish_state_switch"
               /\ PublishStateSwitch)
                  => sent'["state/switch"] = Payload(state_switch.v)
           /\ (/\ next_publish <= clock
               /\ last'.op = "publish_state_brightness"
               /\ PublishStateBrightness)
                  => sent'["state/brightness"] =
                         Payload(IntToStr(state_brightness))
           /\ (/\ next_publish <= clock
               /\ last'.op = "publish_state_rgbw"
               /\ PublishStateRgbw)
                  => sent'["state/rgbw"] = Payload(JoinInts(state_rgbw))
      ]_vars

\* a brightness command was obeyed but not published: the topic still holds
\* an older brightness
C13_Witness ==
    /\ kind = "light"
    /\ throttle_sec > 0
    /\ last.op = "command_brightness"
    /\ last.err = "ok"
    /\ last.cb = 1
    /\ last.pubs = 0
    /\ sent["state/brightness"].has
    /\ sent["state/brightness"].payload # IntToStr(state_brightness)
\* C14: a Text constructed without an initial_state fails in __init__ with
\* InvalidStateValue exactly when the 16-character placeholder
\* 'NO TEXT PROVIDED' is shorter than min_length or longer than max_length;
\* once constructed its state is never unset and is always a string whose
\* length lies in min_length..max_length, whatever set_state calls and
\* commands follow.
C14_TextNeverUnset ==
    (kind = "text" /\ initial_state = NO_STATE) =>
        /\ Len(NO_TEXT_PROVIDED) = 16
        /\ ctor \in {"ok", "InvalidStateValue"}
        /\ ctor = "InvalidStateValue" <=> (min_length > 16 \/ max_length < 16)
        /\ ctor = "ok" =>
               /\ state # NO_STATE
               /\ state.t = "str"
               /\ Len(state.v) \in min_length..max_length

\* a Text built on the placeholder has rejected a too long set_state and
\* holds another text than the placeholder
C14_Witness ==
    /\ kind = "text"
    /\ initial_state = NO_STATE
    /\ ctor = "ok"
    /\ max_length = 16
    /\ last.op = "set_state"
    /\ last.err = "InvalidStateValue"
    /\ state = Str(<<"a", "b", "c">>)

\* C12: a collector built on a host that reports no probes has zero sensor
\* components; no step, publish calls and changes of the probes the host
\* reports included, adds or removes a component; and a publish call of a
\* collector without components makes no transport call.
C12_SensorSetFixed ==
    /\ (kind = "temperatures" /\ get_temperatures(host) = <<>>)
           => DOMAIN sensors = {}
    /\ [][/\ DOMAIN sensors' = DOMAIN sensors
          /\ (DOMAIN sensors = {} /\ TemperaturesPublish)
                 => transport_calls' = 0
        ]_vars

\* a collector built with the probe "coretemp" alone published while the
\* host reported "acpitz" before it: the call made no transport call and the
\* set is still the one of construction
C12_Witness ==
    /\ kind = "temperatures"
    /\ last.op = "temperatures_publish"
    /\ last.err = "KeyError"
    /\ DOMAIN sensors = {"coretemp"}
    /\ keys(get_temperatures(host)) # DOMAIN sensors
    /\ sensors["coretemp"].state # NO_STATE
    /\ transport_calls = 0

====
